---- MODULE Spec2Model ----
(***************************************************************************)
(* Model of the requirement-quality orchestrator (agents.py).              *)
(*                                                                         *)
(* Texts are TLA+ strings and are handled character by character.  JSON    *)
(* values are records [t, s, n, items]: t is the Python type the decoder   *)
(* produces ("str", "num", "bool", "null", "list", "dict"), s the text of  *)
(* a str, n the number (or 1/0 for a bool), items the entries of a list    *)
(* or, with keys, of a dict in insertion order.  A "float" is a value the  *)
(* program computes (the decoder's subset has integers only).              *)
(*                                                                         *)
(* Texts are ASCII: an accented letter is written as the letter followed   *)
(* by "~" ("ra~pido" is the keyword of the code with an accented a, which  *)
(* "rapido" does not match).                                               *)
(*                                                                         *)
(* Scores are kept in hundredths (7000 is 70.0) so that round(x, 2) is an  *)
(* integer operation.                                                      *)
(***************************************************************************)
EXTENDS Integers, Sequences, FiniteSets, TLC

VARIABLES
    text,             \* safe_json_loads alone: the text given to it
    parsed,           \* safe_json_loads alone: the outcome of the call
    analisis_agente,  \* ajustar_puntaje alone: the review given to it
    puntaje,          \* ajustar_puntaje alone: the outcome of the call
    previo,           \* the outcome before the last keyword was added
    inicial,          \* keyword count and outcome of the first review
    paso,             \* the last step taken on the review
    req,              \* orchestrate: the request, a dict
    pc,               \* orchestrate: where the coroutine is
    tarea,            \* the task of each reviewer: its state and its result
    outer,            \* the future of gather: its state and its exception
    ready,            \* the event loop's queue of tasks to step, in order
    servicio,         \* what the model service did with each call
    llamadas,         \* the prompts sent to the model service, in order
    completadas,      \* the reviewer tasks in the order they finished
                      \* (history, dropped when the refinement returns)
    results,          \* orchestrate's local: what gather returned
    porcentajes,      \* orchestrate's local: the calibrated scores
    promedio,         \* orchestrate's local: their mean, in hundredths
    sugerencias,      \* orchestrate's local: the combined suggestions
    refined,          \* orchestrate's local: the parsed refinement
    retorno,          \* the outcome of orchestrate
    tabla,            \* db: the rows of the requirements table, in rowid order
    handler,          \* app: the endpoint that is being served, or "idle"
    batch,            \* batch_analyze: batch.requirements
    resultados,       \* batch_analyze's local results
    respuesta,        \* app: the endpoint and the outcome of the last request
    orquestado,       \* what orchestrate did for each requirement of the
                      \* last request (history)
    guardado,         \* whether save_result wrote the row of each of them
                      \* (history)
    ultimo,           \* per id, the last values that save_result wrote
                      \* (history)
    peticiones        \* the number of requests served

parseVars == <<text, parsed>>

calVars == <<analisis_agente, puntaje, previo, inicial, paso>>

orchVars == <<req, pc, tarea, outer, ready, servicio, llamadas, completadas,
              results, porcentajes, promedio, sugerencias, refined, retorno>>

appVars == <<tabla, handler, batch, resultados, respuesta, orquestado,
             guardado, ultimo, peticiones>>

vars == <<parseVars, calVars, orchVars, appVars>>

(***************************************************************************)
(* JSON values                                                             *)
(***************************************************************************)
JNull == [t |-> "null", s |-> "", n |-> 0, items |-> <<>>]

JStr(str) == [t |-> "str", s |-> str, n |-> 0, items |-> <<>>]

JNum(k) == [t |-> "num", s |-> "", n |-> k, items |-> <<>>]

JBool(b) == [t |-> "bool", s |-> "", n |-> IF b THEN 1 ELSE 0, items |-> <<>>]

\* A Python float, n being its value in hundredths
JFloat(h) == [t |-> "float", s |-> "", n |-> h, items |-> <<>>]

Entry(k, v) == [key |-> k, val |-> v]

JList(vals) == [t |-> "list", s |-> "", n |-> 0,
                items |-> [i \in 1..Len(vals) |-> Entry("", vals[i])]]

JDict(entries) == [t |-> "dict", s |-> "", n |-> 0, items |-> entries]

\* k in d
HasKey(d, k) == \E i \in 1..Len(d.items) : d.items[i].key = k

\* d[k], for a key that is present
Lookup(d, k) == d.items[CHOOSE i \in 1..Len(d.items) : d.items[i].key = k].val

\* d.get(k, default)
DictGet(d, k, default) == IF HasKey(d, k) THEN Lookup(d, k) ELSE default

\* d[k] = v on the entries of a dict: a repeated key keeps its place and
\* takes the later value
DictSet(entries, k, v) ==
    IF \E i \in 1..Len(entries) : entries[i].key = k
    THEN [i \in 1..Len(entries) |->
            IF entries[i].key = k THEN Entry(k, v) ELSE entries[i]]
    ELSE Append(entries, Entry(k, v))

(***************************************************************************)
(* json.loads, on the subset of JSON without fractions, exponents and      *)
(* \u escapes: objects, arrays, strings, integers, true, false, null.      *)
(***************************************************************************)
\* Nesting depth at which the decoder exhausts the interpreter's recursion
\* limit and raises RecursionError: the limit is scaled down to the depth
\* the texts of this model reach.
JsonDepthLimit == 4

Ch(str, i) == IF i >= 1 /\ i <= Len(str) THEN SubSeq(str, i, i) ELSE ""

Whitespace == {" ", "\n", "\t", "\r"}

DigitChars == {"0", "1", "2", "3", "4", "5", "6", "7", "8", "9"}

DigitVal(c) ==
    CASE c = "0" -> 0 [] c = "1" -> 1 [] c = "2" -> 2 [] c = "3" -> 3
      [] c = "4" -> 4 [] c = "5" -> 5 [] c = "6" -> 6 [] c = "7" -> 7
      [] c = "8" -> 8 [] c = "9" -> 9

RECURSIVE SkipWs(_, _)
SkipWs(str, i) ==
    IF Ch(str, i) \in Whitespace THEN SkipWs(str, i + 1) ELSE i

\* A decoding step: err is "" (a value, up to next - 1), "decode"
\* (json.JSONDecodeError) or "recursion" (RecursionError).
Decoded(v, j) == [err |-> "", val |-> v, next |-> j]

DecodeFail(e) == [err |-> e, val |-> JNull, next |-> 0]

\* The end of the digit run that starts at i
RECURSIVE DigitsEnd(_, _)
DigitsEnd(str, i) ==
    IF Ch(str, i) \in DigitChars THEN DigitsEnd(str, i + 1) ELSE i

RECURSIVE DigitsValue(_, _, _, _)
DigitsValue(str, i, j, acc) ==
    IF i >= j THEN acc
    ELSE DigitsValue(str, i + 1, j, 10 * acc + DigitVal(Ch(str, i)))

\* An integer at i (the digits after an optional minus sign start at i): a
\* leading 0 is a number by itself.
ScanDigits(str, i, sign) ==
    IF Ch(str, i) \notin DigitChars THEN DecodeFail("decode")
    ELSE IF Ch(str, i) = "0" THEN Decoded(JNum(0), i + 1)
    ELSE LET j == DigitsEnd(str, i)
         IN  Decoded(JNum(sign * DigitsValue(str, i, j, 0)), j)

\* The string whose text starts at i (after the opening quote), acc being
\* the text decoded so far: a backslash escapes a quote, a backslash, a
\* slash or n, and a control character inside a string is an error of the
\* strict decoder
RECURSIVE ScanStringFrom(_, _, _)
ScanStringFrom(str, i, acc) ==
    LET c == Ch(str, i)
        e == Ch(str, i + 1)
    IN  IF c = "" \/ c \in {"\n", "\t", "\r"} THEN DecodeFail("decode")
        ELSE IF c = "\"" THEN Decoded(JStr(acc), i + 1)
        ELSE IF c # "\\" THEN ScanStringFrom(str, i + 1, acc \o c)
        ELSE IF e \in {"\"", "\\", "/"}
             THEN ScanStringFrom(str, i + 2, acc \o e)
        ELSE IF e = "n" THEN ScanStringFrom(str, i + 2, acc \o "\n")
        ELSE DecodeFail("decode")

\* The string whose opening quote is at i
ScanString(str, i) == ScanStringFrom(str, i + 1, "")

RECURSIVE ParseValue(_, _, _), ParseElements(_, _, _, _), ParseMembers(_, _, _, _)
\* The value that starts at i, inside d enclosing arrays and objects
ParseValue(str, i, d) ==
    LET c == Ch(str, i)
    IN  CASE c = "\"" -> ScanString(str, i)
          [] c = "{" ->
               IF d >= JsonDepthLimit THEN DecodeFail("recursion")
               ELSE LET j == SkipWs(str, i + 1)
                    IN  IF Ch(str, j) = "}" THEN Decoded(JDict(<<>>), j + 1)
                        ELSE ParseMembers(str, j, d + 1, <<>>)
          [] c = "[" ->
               IF d >= JsonDepthLimit THEN DecodeFail("recursion")
               ELSE LET j == SkipWs(str, i + 1)
                    IN  IF Ch(str, j) = "]" THEN Decoded(JList(<<>>), j + 1)
                        ELSE ParseElements(str, j, d + 1, <<>>)
          [] c = "-" -> ScanDigits(str, i + 1, -1)
          [] c \in DigitChars -> ScanDigits(str, i, 1)
          [] c = "t" /\ SubSeq(str, i, i + 3) = "true" ->
               Decoded(JBool(TRUE), i + 4)
          [] c = "f" /\ SubSeq(str, i, i + 4) = "false" ->
               Decoded(JBool(FALSE), i + 5)
          [] c = "n" /\ SubSeq(str, i, i + 3) = "null" ->
               Decoded(JNull, i + 4)
          [] OTHER -> DecodeFail("decode")

\* The elements of an array from i on, acc being those already decoded
ParseElements(str, i, d, acc) ==
    LET v == ParseValue(str, i, d)
        j == SkipWs(str, v.next)
    IN  IF v.err # "" THEN v
        ELSE IF Ch(str, j) = ","
             THEN ParseElements(str, SkipWs(str, j + 1), d, Append(acc, v.val))
        ELSE IF Ch(str, j) = "]"
             THEN Decoded(JList(Append(acc, v.val)), j + 1)
        ELSE DecodeFail("decode")

\* The members of an object from i on, acc being the entries already decoded
ParseMembers(str, i, d, acc) ==
    IF Ch(str, i) # "\"" THEN DecodeFail("decode")
    ELSE LET k == ScanString(str, i)
             c == SkipWs(str, k.next)
             v == ParseValue(str, SkipWs(str, c + 1), d)
             j == SkipWs(str, v.next)
         IN  IF k.err # "" THEN k
             ELSE IF Ch(str, c) # ":" THEN DecodeFail("decode")
             ELSE IF v.err # "" THEN v
             ELSE IF Ch(str, j) = ","
                  THEN ParseMembers(str, SkipWs(str, j + 1), d,
                                    DictSet(acc, k.val.s, v.val))
             ELSE IF Ch(str, j) = "}"
                  THEN Decoded(JDict(DictSet(acc, k.val.s, v.val)), j + 1)
             ELSE DecodeFail("decode")

\* json.loads(str): one value, with nothing but whitespace around it
JsonLoads(str) ==
    LET v == ParseValue(str, SkipWs(str, 1), 0)
    IN  IF v.err # "" THEN v
        ELSE IF SkipWs(str, v.next) <= Len(str) THEN DecodeFail("decode")
        ELSE v

(***************************************************************************)
(* safe_json_loads                                                         *)
(***************************************************************************)
\* The outcome of a call: a returned value, or the exception that escapes it
Returned(v) == [exc |-> "", val |-> v]

Raised(e) == [exc |-> e, val |-> JNull]

Positions(str, c) == {i \in 1..Len(str) : Ch(str, i) = c}

Last(S) == CHOOSE i \in S : \A j \in S : j <= i

\* The end of the match of \{.*\} or of \[.*\] that starts at i, or 0: the
\* greedy .* (with DOTALL) runs to the last closing character after i
MatchEnd(str, i) ==
    LET closer == IF Ch(str, i) = "{" THEN "}"
                  ELSE IF Ch(str, i) = "[" THEN "]" ELSE ""
        ends == {j \in Positions(str, closer) : j > i}
    IN  IF closer = "" \/ ends = {} THEN 0 ELSE Last(ends)

\* re.search(r"\{.*\}|\[.*\]", text, re.DOTALL): the leftmost match, "" for
\* no match (a match is never empty)
ReSearch(str) ==
    LET starts == {i \in 1..Len(str) : MatchEnd(str, i) # 0}
    IN  IF starts = {} THEN ""
        ELSE LET i == CHOOSE k \in starts : \A j \in starts : k <= j
             IN  SubSeq(str, i, MatchEnd(str, i))

NoJsonError(raw) ==
    JDict(<<Entry("error", JStr("No JSON encontrado")),
            Entry("raw_response", JStr(raw))>>)

InvalidJsonError(raw) ==
    JDict(<<Entry("error", JStr("JSON inva~lido")),
            Entry("detalle", JStr("JSONDecodeError")),
            Entry("raw_response", JStr(raw))>>)

safe_json_loads(str) ==
    LET match == ReSearch(str)
        r == JsonLoads(match)
    IN  IF match = "" THEN Returned(NoJsonError(str))
        ELSE IF r.err = "" THEN Returned(r.val)
        ELSE IF r.err = "decode" THEN Returned(InvalidJsonError(str))
        ELSE Raised("RecursionError")

(***************************************************************************)
(* ajustar_puntaje                                                         *)
(***************************************************************************)
LowerChar(c) ==
    CASE c = "A" -> "a" [] c = "B" -> "b" [] c = "C" -> "c" [] c = "D" -> "d"
      [] c = "E" -> "e" [] c = "F" -> "f" [] c = "G" -> "g" [] c = "H" -> "h"
      [] c = "I" -> "i" [] c = "J" -> "j" [] c = "K" -> "k" [] c = "L" -> "l"
      [] c = "M" -> "m" [] c = "N" -> "n" [] c = "O" -> "o" [] c = "P" -> "p"
      [] c = "Q" -> "q" [] c = "R" -> "r" [] c = "S" -> "s" [] c = "T" -> "t"
      [] c = "U" -> "u" [] c = "V" -> "v" [] c = "W" -> "w" [] c = "X" -> "x"
      [] c = "Y" -> "y" [] c = "Z" -> "z"
      [] OTHER -> c

\* str.lower()
RECURSIVE Lower(_)
Lower(str) ==
    IF str = "" THEN ""
    ELSE LowerChar(Ch(str, 1)) \o Lower(SubSeq(str, 2, Len(str)))

\* p in str, for two texts
Contains(p, str) ==
    \E i \in 1..(Len(str) - Len(p) + 1) : SubSeq(str, i, i + Len(p) - 1) = p

RECURSIVE NatToStr(_)
NatToStr(k) ==
    LET d == SubSeq("0123456789", (k % 10) + 1, (k % 10) + 1)
    IN  IF k < 10 THEN d ELSE NatToStr(k \div 10) \o d

IntToStr(k) == IF k < 0 THEN "-" \o NatToStr(-k) ELSE NatToStr(k)

\* repr of the float of h hundredths: at least one decimal, at most two
FormatFloat(h) ==
    LET a == IF h < 0 THEN -h ELSE h
        frac == a % 100
    IN  (IF h < 0 THEN "-" ELSE "") \o NatToStr(a \div 100) \o "."
        \o (IF frac % 10 = 0 THEN NatToStr(frac \div 10)
            ELSE IF frac < 10 THEN "0" \o NatToStr(frac)
            ELSE NatToStr(frac))

\* repr(v), and the items of a list or dict joined by ", "
RECURSIVE PyRepr(_), ReprItems(_, _, _)
PyRepr(v) ==
    CASE v.t = "str" -> "'" \o v.s \o "'"
      [] v.t = "num" -> IntToStr(v.n)
      [] v.t = "float" -> FormatFloat(v.n)
      [] v.t = "bool" -> IF v.n = 1 THEN "True" ELSE "False"
      [] v.t = "null" -> "None"
      [] v.t = "list" -> "[" \o ReprItems(v.items, 1, FALSE) \o "]"
      [] v.t = "dict" -> "{" \o ReprItems(v.items, 1, TRUE) \o "}"

ReprItems(items, i, keyed) ==
    IF i > Len(items) THEN ""
    ELSE (IF i > 1 THEN ", " ELSE "")
         \o (IF keyed THEN "'" \o items[i].key \o "': " ELSE "")
         \o PyRepr(items[i].val)
         \o ReprItems(items, i + 1, keyed)

\* str(v)
PyStr(v) == IF v.t = "str" THEN v.s ELSE PyRepr(v)

\* The three keyword lists of the penalties
PalabrasValor == {"ambiguo", "incompleto", "baja", "no"}

PalabrasSugerencia == {"reemplazar", "no medible", "ajustar", "reformule"}

PalabrasVagas == {"ra~pido", "eficiente", "adecuado"}

\* any(p in str for p in palabras)
AnyIn(palabras, str) == \E p \in palabras : Contains(p, str)

\* The penalty of one attribute that is a dict
Penalizacion(datos) ==
    LET valor == Lower(PyStr(DictGet(datos, "valor", JStr(""))))
        sugerencia == Lower(PyStr(DictGet(datos, "sugerencia", JStr(""))))
    IN  (IF AnyIn(PalabrasValor, valor) THEN 20 ELSE 0)
        + (IF AnyIn(PalabrasSugerencia, sugerencia) THEN 15 ELSE 0)
        + (IF AnyIn(PalabrasVagas, sugerencia) THEN 20 ELSE 0)

\* The attributes the loop counts: those whose value is a dict
Contados(atributos) ==
    {i \in 1..Len(atributos.items) : atributos.items[i].val.t = "dict"}

RECURSIVE SumaPenalizacion(_, _)
SumaPenalizacion(atributos, i) ==
    IF i > Len(atributos.items) THEN 0
    ELSE (IF i \in Contados(atributos)
          THEN Penalizacion(atributos.items[i].val) ELSE 0)
         + SumaPenalizacion(atributos, i + 1)

\* The integer nearest to num / den (den > 0), a tie going to the even one
RoundDiv(num, den) ==
    LET q == num \div den
        r == num % den
    IN  IF 2 * r < den THEN q
        ELSE IF 2 * r > den THEN q + 1
        ELSE IF q % 2 = 0 THEN q ELSE q + 1

Max(a, b) == IF a >= b THEN a ELSE b

\* The outcome of a call that returns a score, in hundredths
Puntaje(x) == [exc |-> "", val |-> x]

PuntajeRaised(e) == [exc |-> e, val |-> 0]

\* Variant: the penalty is added to the base instead of subtracted
PuntajeAjustadoSuma(puntaje_base, penalizacion, total_attrs) ==
    Max(0, RoundDiv(100 * (puntaje_base * total_attrs + penalizacion),
                    total_attrs))

\* Variant: the penalty is not divided by the number of attributes
PuntajeAjustadoSinDividir(puntaje_base, penalizacion, total_attrs) ==
    Max(0, 100 * (puntaje_base - penalizacion))

\* max(0, puntaje_base - penalizacion / total_attrs), rounded to 2 decimals
PuntajeAjustado(puntaje_base, penalizacion, total_attrs) ==
    Max(0, RoundDiv(100 * (puntaje_base * total_attrs - penalizacion),
                    total_attrs))

ajustar_puntaje(analisis) ==
    IF analisis.t # "dict" THEN Puntaje(0)
    ELSE LET atributos == DictGet(analisis, "atributos", JDict(<<>>))
             total_attrs == Cardinality(Contados(atributos))
             penalizacion == SumaPenalizacion(atributos, 1)
             puntaje_base == DictGet(analisis, "porcentaje", JNum(0))
         IN  IF atributos.t # "dict" THEN PuntajeRaised("AttributeError")
             ELSE IF total_attrs = 0 THEN Puntaje(0)
             ELSE IF puntaje_base.t \notin {"num", "bool"}
                  THEN PuntajeRaised("TypeError")
             ELSE Puntaje(PuntajeAjustado(puntaje_base.n, penalizacion,
                                          total_attrs))

(***************************************************************************)
(* safe_json_loads on its own: every text over TextAlphabet of at most     *)
(* MaxTextLen characters, and the sample texts.                            *)
(***************************************************************************)
MaxTextLen == 4

TextAlphabet == {"{", "}", "[", "]", "1", ",", "a"}

RECURSIVE TextsOfLen(_)
TextsOfLen(k) ==
    IF k = 0 THEN {""}
    ELSE {str \o c : str \in TextsOfLen(k - 1), c \in TextAlphabet}

SampleTexts ==
    { "",
      "Lo siento, no puedo evaluar este requisito.",
      "{\"atributos\": {\"claridad\": {\"valor\": \"alta\"",
      "Respuesta:\n{\"porcentaje\": 80, \"atributos\": {}}\nFin.",
      "[1, {\"a\": 2}]",
      "{\"a\": 1} y {\"b\": 2}",
      "{\"atributos\": {\"claridad\": {\"valor\": \"alta\"}, ",
      "[[[[[1]]]]]" }

Texts == UNION {TextsOfLen(k) : k \in 0..MaxTextLen} \cup SampleTexts

NotParsed == [exc |-> "none", val |-> JNull]

NotComputed == [exc |-> "none", val |-> 0]

NoInicial == [palabras |-> 0, puntaje |-> NotComputed]

CalIdle ==
    /\ analisis_agente = JNull
    /\ puntaje = NotComputed
    /\ previo = NotComputed
    /\ inicial = NoInicial
    /\ paso = "ninguno"

ParseIdle ==
    /\ text = ""
    /\ parsed = NotParsed

\* The roles of the reviewers, in the order orchestrate lists them
Agents == <<"Product Owner", "Analyst", "Scrum Master", "Tester">>

Roles == {Agents[i] : i \in 1..Len(Agents)}

\* The model calls of a run: one per reviewer, then the two follow-ups
Calls == Roles \cup {"refine", "create"}

NoOutcome == [falla |-> FALSE, texto |-> "(pendiente)"]

NoTask == [estado |-> "none", exc |-> "", resultado |-> JNull]

NotReturned == [exc |-> "none", val |-> JNull]

OrchIdle ==
    /\ req = JNull
    /\ pc = "idle"
    /\ tarea = [r \in Roles |-> NoTask]
    /\ outer = [estado |-> "none", exc |-> ""]
    /\ ready = <<>>
    /\ servicio = [c \in Calls |-> NoOutcome]
    /\ llamadas = <<>>
    /\ completadas = <<>>
    /\ results = <<>>
    /\ porcentajes = <<>>
    /\ promedio = 0
    /\ sugerencias = <<>>
    /\ refined = NotParsed
    /\ retorno = NotReturned

\* No row stored, no request served
NoRespuesta == [endpoint |-> "none", exc |-> "none", val |-> JNull]

AppIdle ==
    /\ tabla = <<>>
    /\ handler = "idle"
    /\ batch = <<>>
    /\ resultados = <<>>
    /\ respuesta = NoRespuesta
    /\ orquestado = <<>>
    /\ guardado = <<>>
    /\ ultimo = <<>>
    /\ peticiones = 0

ParseInit ==
    /\ text \in Texts
    /\ parsed = NotParsed
    /\ CalIdle
    /\ OrchIdle
    /\ AppIdle

ParseText ==
    /\ parsed = NotParsed
    /\ parsed' = safe_json_loads(text)
    /\ UNCHANGED <<text, calVars, orchVars, appVars>>

ParseNext == ParseText

ParseSpec == ParseInit /\ [][ParseNext]_vars

(***************************************************************************)
(* ajustar_puntaje on its own: every review of at most MaxAtributos        *)
(* attributes drawn from DatosDeAtributo, then edited by adding an         *)
(* attribute or a keyword.                                                 *)
(***************************************************************************)
MaxAtributos == 2

AtributoNombres == <<"claridad", "completitud", "consistencia", "atomicidad">>

ValoresDeAtributo == {JStr("alta"), JStr("Ambiguo"), JNull}

SugerenciasDeAtributo ==
    {JStr("Debe ser ma~s ra~pido"), JStr("Reformule el requisito")}

\* What the service may put under an attribute: a dict with a valor and
\* maybe a sugerencia, or (Tester's casos_prueba) something that is no dict
DatosDeAtributo ==
    {JDict(<<Entry("valor", v)>>) : v \in ValoresDeAtributo}
    \cup {JDict(<<Entry("valor", v), Entry("sugerencia", g)>>) :
             v \in ValoresDeAtributo, g \in SugerenciasDeAtributo}
    \cup {JList(<<JStr("Verificar el registro")>>)}

PorcentajesReportados == {JNum(90), JNum(150), JStr("90")}

\* The atributos dict of the attributes datos[1..k], named in order
Atributos(datos) ==
    JDict([i \in 1..Len(datos) |-> Entry(AtributoNombres[i], datos[i])])

Revision(datos, porcentaje) ==
    JDict(<<Entry("atributos", Atributos(datos)),
            Entry("porcentaje", porcentaje)>>)

Revisiones ==
    {Revision(datos, pct) :
        datos \in UNION {[1..k -> DatosDeAtributo] : k \in 0..MaxAtributos},
        pct \in PorcentajesReportados}
    \cup {JList(<<JNum(1)>>),
          JDict(<<Entry("atributos", JList(<<JStr("claridad")>>)),
                  Entry("porcentaje", JNum(80))>>),
          JDict(<<Entry("error", JStr("No JSON encontrado")),
                  Entry("raw_response", JStr(""))>>)}

\* The number of keyword matches of a review: for each counted attribute,
\* the keywords of the valor list found in its valor and the keywords of the
\* two sugerencia lists found in its sugerencia
PalabrasEnDatos(datos) ==
    LET valor == Lower(PyStr(DictGet(datos, "valor", JStr(""))))
        sugerencia == Lower(PyStr(DictGet(datos, "sugerencia", JStr(""))))
    IN  Cardinality({p \in PalabrasValor : Contains(p, valor)})
        + Cardinality({p \in PalabrasSugerencia \cup PalabrasVagas :
                         Contains(p, sugerencia)})

RECURSIVE PalabrasDesde(_, _)
PalabrasDesde(atributos, i) ==
    IF i > Len(atributos.items) THEN 0
    ELSE (IF i \in Contados(atributos)
          THEN PalabrasEnDatos(atributos.items[i].val) ELSE 0)
         + PalabrasDesde(atributos, i + 1)

PalabrasCoincidentes(analisis) ==
    IF analisis.t = "dict" /\ DictGet(analisis, "atributos", JNull).t = "dict"
    THEN PalabrasDesde(Lookup(analisis, "atributos"), 1)
    ELSE 0

\* The review with attribute i replaced by datos
ConAtributo(analisis, i, datos) ==
    LET atributos == Lookup(analisis, "atributos")
    IN  JDict(DictSet(analisis.items, "atributos",
                      JDict([atributos.items EXCEPT ![i].val = datos])))

\* The attribute datos with the keyword p added to the text of campo
ConPalabra(datos, campo, p) ==
    JDict(DictSet(datos.items, campo,
                  JStr(PyStr(DictGet(datos, campo, JStr(""))) \o " " \o p)))

CalInit ==
    /\ analisis_agente \in Revisiones
    /\ puntaje = NotComputed
    /\ previo = NotComputed
    /\ inicial = NoInicial
    /\ paso = "ninguno"
    /\ ParseIdle
    /\ OrchIdle
    /\ AppIdle

\* ajustar_puntaje(analisis_agente)
Ajustar ==
    /\ paso = "ninguno"
    /\ puntaje' = ajustar_puntaje(analisis_agente)
    /\ inicial' = [palabras |-> PalabrasCoincidentes(analisis_agente),
                   puntaje |-> puntaje']
    /\ paso' = "ajustar"
    /\ UNCHANGED <<analisis_agente, previo, parseVars, orchVars, appVars>>

\* The same review with one more attribute, calibrated again
AgregarAtributo ==
    /\ paso = "ajustar"
    /\ analisis_agente.t = "dict"
    /\ DictGet(analisis_agente, "atributos", JNull).t = "dict"
    /\ \E datos \in DatosDeAtributo :
         LET atributos == Lookup(analisis_agente, "atributos")
             k == Len(atributos.items) + 1
         IN  /\ k <= MaxAtributos
             /\ analisis_agente' =
                    JDict(DictSet(analisis_agente.items, "atributos",
                          JDict(Append(atributos.items,
                                       Entry(AtributoNombres[k], datos)))))
    /\ puntaje' = ajustar_puntaje(analisis_agente')
    /\ previo' = puntaje
    /\ paso' = "atributo"
    /\ UNCHANGED <<inicial, parseVars, orchVars, appVars>>

\* The same review with one keyword added to the valor or the sugerencia of
\* one counted attribute, calibrated again
AgregarPalabra ==
    /\ paso \in {"ajustar", "atributo"}
    /\ analisis_agente.t = "dict"
    /\ DictGet(analisis_agente, "atributos", JNull).t = "dict"
    /\ \E i \in Contados(Lookup(analisis_agente, "atributos")) :
         \E campo \in {"valor", "sugerencia"} :
           \E p \in PalabrasValor \cup PalabrasSugerencia \cup PalabrasVagas :
             analisis_agente' =
                ConAtributo(analisis_agente, i,
                    ConPalabra(Lookup(analisis_agente, "atributos").items[i].val,
                               campo, p))
    /\ puntaje' = ajustar_puntaje(analisis_agente')
    /\ previo' = puntaje
    /\ paso' = "palabra"
    /\ UNCHANGED <<inicial, parseVars, orchVars, appVars>>

CalNext == Ajustar \/ AgregarAtributo \/ AgregarPalabra

CalSpec == CalInit /\ [][CalNext]_vars

(***************************************************************************)
(* Properties of ajustar_puntaje                                           *)
(***************************************************************************)
\* C8 (as claimed): every calibrated score that ajustar_puntaje returns lies
\* in [0, 100], whatever porcentaje the model reported.
C8_PuntajeEnRango ==
    puntaje.exc = "" => puntaje.val >= 0 /\ puntaje.val <= 10000

\* C9 (as claimed): for a fixed base percentage, a review with more keyword
\* matches than another never has the higher calibrated score.
C9_MonotonoEnConteo ==
    (/\ paso \in {"atributo", "palabra"}
     /\ inicial.puntaje.exc = ""
     /\ puntaje.exc = ""
     /\ PalabrasCoincidentes(analisis_agente) > inicial.palabras)
    => puntaje.val <= inicial.puntaje.val

\* C9 (amended): adding a keyword to the valor or the sugerencia of an
\* attribute of a review never increases its calibrated score: when the call
\* returned before, it returns after, with a score that is not higher.
C9_AgregarPalabraNoAumenta ==
    (paso = "palabra" /\ previo.exc = "")
    => (puntaje.exc = "" /\ puntaje.val <= previo.val)

\* C9 witness: a keyword was added and the score went down.
C9_Witness ==
    /\ paso = "palabra"
    /\ previo.exc = ""
    /\ puntaje.exc = ""
    /\ puntaje.val < previo.val

(***************************************************************************)
(* ask_gemini                                                              *)
(***************************************************************************)
\* The text of str with " and \ and newline escaped, as json.dumps writes
\* it: the text up to the first such character, its escape, and the rest
\* escaped
RECURSIVE JsonEscape(_)
JsonEscape(str) ==
    LET special == {i \in 1..Len(str) : Ch(str, i) \in {"\"", "\\", "\n"}}
        k == CHOOSE i \in special : \A j \in special : i <= j
    IN  IF special = {} THEN str
        ELSE SubSeq(str, 1, k - 1)
             \o (IF Ch(str, k) = "\n" THEN "\\n" ELSE "\\" \o Ch(str, k))
             \o JsonEscape(SubSeq(str, k + 1, Len(str)))

\* json.dumps(v), and the items of a list or dict joined by ", "
RECURSIVE JsonDumps(_), DumpItems(_, _, _)
JsonDumps(v) ==
    CASE v.t = "str" -> "\"" \o JsonEscape(v.s) \o "\""
      [] v.t = "num" -> IntToStr(v.n)
      [] v.t = "float" -> FormatFloat(v.n)
      [] v.t = "bool" -> IF v.n = 1 THEN "true" ELSE "false"
      [] v.t = "null" -> "null"
      [] v.t = "list" -> "[" \o DumpItems(v.items, 1, FALSE) \o "]"
      [] v.t = "dict" -> "{" \o DumpItems(v.items, 1, TRUE) \o "}"

DumpItems(items, i, keyed) ==
    IF i > Len(items) THEN ""
    ELSE (IF i > 1 THEN ", " ELSE "")
         \o (IF keyed THEN "\"" \o JsonEscape(items[i].key) \o "\": " ELSE "")
         \o JsonDumps(items[i].val)
         \o DumpItems(items, i + 1, keyed)

\* str.strip()
RECURSIVE StripRight(_)
StripRight(str) ==
    IF str # "" /\ Ch(str, Len(str)) \in Whitespace
    THEN StripRight(SubSeq(str, 1, Len(str) - 1)) ELSE str

Strip(str) == StripRight(SubSeq(str, SkipWs(str, 1), Len(str)))

\* str(response) for a response without text: some text of the client
\* library that describes the response object
StrResponse == "<GenerateContentResponse done=True>"

\* What ask_gemini returns when the service did o: o.falla is an exception
\* of the client with message o.texto, otherwise o.texto is response.text
ask_gemini(o) ==
    IF o.falla THEN JsonDumps(JDict(<<Entry("error", JStr(o.texto))>>))
    ELSE IF o.texto # "" THEN Strip(o.texto)
    ELSE StrResponse

(***************************************************************************)
(* Agent.analyze and orchestrate: what they compute                        *)
(***************************************************************************)
\* bool(v)
Truthy(v) ==
    CASE v.t = "str" -> v.s # ""
      [] v.t \in {"num", "float", "bool"} -> v.n # 0
      [] v.t = "null" -> FALSE
      [] v.t \in {"list", "dict"} -> v.items # <<>>

\* A prompt: who asks, and what its text embeds
Prompt(quien, descripcion, texto, digest) ==
    [quien |-> quien, descripcion_proyecto |-> descripcion, text |-> texto,
     sugerencias_texto |-> digest]

\* The prompt of a reviewer: the role's instructions around the project
\* description and the requirement
AnalyzePrompt(role, r) ==
    Prompt(role, PyStr(Lookup(r, "descripcion_proyecto")),
           PyStr(Lookup(r, "text")), "")

\* What analyze returns for the analysis it parsed
AnalyzeResult(role, analysis) ==
    JDict(<<Entry("role", JStr(role)),
            Entry("analysis", analysis),
            Entry("porcentaje", DictGet(analysis, "porcentaje", JNum(0)))>>)

\* a["analysis"]
Analysis(a) == DictGet(a, "analysis", JNull)

\* Variant: the reviews whose model call failed are left out
GatherResultsSinFallas(t) ==
    SelectSeq([i \in 1..Len(Agents) |-> t[Agents[i]].resultado],
              LAMBDA a : ~HasKey(Analysis(a), "error"))

\* Variant: the results come in the order the tasks finished
GatherResultsPorTerminacion(t) ==
    [i \in 1..Len(completadas) |-> t[completadas[i]].resultado]

\* What gather returns: the results of the tasks, in the order of the
\* awaitables it was given
GatherResults(t) == [i \in 1..Len(Agents) |-> t[Agents[i]].resultado]

\* Variant: the future of gather gets its result with the first task
GatherListoAlguna(t) == \E r \in Roles : t[r].estado = "done"

\* The future of gather gets its result when every task has finished
GatherListo(t) == \A r \in Roles : t[r].estado = "done"

RECURSIVE Sum(_, _)
Sum(seq, i) == IF i > Len(seq) THEN 0 ELSE seq[i].val + Sum(seq, i + 1)

\* round(sum(porcentajes) / len(porcentajes), 2), 0 for no score
Promedio(pcts) ==
    IF pcts = <<>> THEN 0 ELSE RoundDiv(Sum(pcts, 1), Len(pcts))

\* "{puntaje}" for a calibrated score: the int 0, or a float
FormatPuntaje(x) == IF x = 0 THEN "0" ELSE FormatFloat(x)

\* The suggestion lines of one review, from attribute i on
RECURSIVE SugerenciasDeAgente(_, _, _)
SugerenciasDeAgente(a, x, i) ==
    LET attrs == DictGet(Analysis(a), "atributos", JDict(<<>>))
        info == attrs.items[i].val
    IN  IF i > Len(attrs.items) THEN <<>>
        ELSE (IF info.t = "dict" /\ Truthy(DictGet(info, "sugerencia", JNull))
              THEN <<"- (" \o PyStr(DictGet(a, "role", JNull)) \o " - "
                      \o attrs.items[i].key \o " - " \o FormatPuntaje(x)
                      \o "%): Sugerencia: "
                      \o PyStr(Lookup(info, "sugerencia"))>>
              ELSE <<>>)
             \o SugerenciasDeAgente(a, x, i + 1)

\* The suggestion lines of the reviews from review k on
RECURSIVE Sugerencias(_, _, _)
Sugerencias(res, pcts, k) ==
    IF k > Len(res) \/ k > Len(pcts) THEN <<>>
    ELSE SugerenciasDeAgente(res[k], pcts[k].val, 1)
         \o Sugerencias(res, pcts, k + 1)

\* "\n".join(lines)
RECURSIVE JoinLines(_, _)
JoinLines(lines, i) ==
    IF i > Len(lines) THEN ""
    ELSE (IF i > 1 THEN "\n" ELSE "") \o lines[i] \o JoinLines(lines, i + 1)

SugerenciasTexto(lines) ==
    IF lines # <<>> THEN JoinLines(lines, 1) ELSE "Ninguna sugerencia."

RefinePrompt(r, lines) ==
    Prompt("refine", PyStr(Lookup(r, "descripcion_proyecto")),
           PyStr(Lookup(r, "text")), SugerenciasTexto(lines))

CreatePrompt(r) ==
    Prompt("create", PyStr(Lookup(r, "descripcion_proyecto")), "", "")

\* The result for a request without a project description
ValidationError(r) ==
    JDict(<<Entry("error",
                  JStr("El campo 'descripcion_proyecto' es obligatorio")),
            Entry("id", DictGet(r, "id", JStr("-"))),
            Entry("text", Lookup(r, "text"))>>)

\* {a["role"]: a["analysis"] for a in results}
RECURSIVE AnalisisDetallado(_, _)
AnalisisDetallado(res, k) ==
    IF k = 0 THEN <<>>
    ELSE DictSet(AnalisisDetallado(res, k - 1),
                 PyStr(DictGet(res[k], "role", JNull)), Analysis(res[k]))

\* The result of a run that went through, with texto under "text"
ResultadoCon(r, texto, res, prom, lines, ref, nuevo) ==
    JDict(<<
      Entry("id", DictGet(r, "id", JStr("-"))),
      Entry("text", texto),
      Entry("descripcion_proyecto", Lookup(r, "descripcion_proyecto")),
      Entry("promedio_cumplimiento", JFloat(prom)),
      Entry("analisis_detallado", JDict(AnalisisDetallado(res, Len(res)))),
      Entry("sugerencias_combinadas",
            JList([i \in 1..Len(lines) |-> JStr(lines[i])])),
      Entry("opciones_requisito", JDict(<<
        Entry("requisito_refinado",
              DictGet(ref, "requisito_refinado_final", JStr("No generado"))),
        Entry("justificacion_refinado",
              DictGet(ref, "justificacion_refinamiento",
                      JStr("Sin justificacio~n"))),
        Entry("requisito_nuevo",
              DictGet(nuevo, "requisito_funcional_nuevo",
                      JStr("No generado"))),
        Entry("justificacion_nuevo",
              DictGet(nuevo, "justificacion", JStr("Sin justificacio~n")))>>)),
      Entry("recomendacion",
            JStr("Compare ambas opciones y elija la que mejor se adapte a las necesidades especi~ficas del proyecto."))>>)

\* Variant: the refined requirement is returned as the text
ResultadoTextoRefinado(r, res, prom, lines, ref, nuevo) ==
    ResultadoCon(r, DictGet(ref, "requisito_refinado_final",
                            Lookup(r, "text")),
                 res, prom, lines, ref, nuevo)

\* The result of a run that went through: "text" is req["text"]
Resultado(r, res, prom, lines, ref, nuevo) ==
    ResultadoCon(r, Lookup(r, "text"), res, prom, lines, ref, nuevo)

(***************************************************************************)
(* orchestrate on the event loop.  The loop steps the task at the head of  *)
(* ready; a model call runs in an executor thread, and the task that       *)
(* awaits it is queued again when the thread has finished.                 *)
(***************************************************************************)
Req(entries) == JDict(entries)

Requisitos ==
    LET id == Entry("id", JStr("RF-01"))
        texto == Entry("text", JStr("El sistema debe ser ra~pido"))
        descripcion == Entry("descripcion_proyecto",
                             JStr("Sistema de gestio~n bibliotecaria"))
        vacio(k) == Entry(k, JStr(""))
    IN  { Req(<<id, texto, descripcion>>),
          Req(<<id, texto, vacio("descripcion_proyecto")>>),
          Req(<<texto>>),
          Req(<<id, vacio("text"), descripcion>>),
          Req(<<id, descripcion>>),
          Req(<<id>>) }

Habla(texto) == [falla |-> FALSE, texto |-> texto]

Falla(mensaje) == [falla |-> TRUE, texto |-> mensaje]

\* What the service may do with the call of a reviewer
ReviewerOutcomes ==
    { Falla("503 Service \"Unavailable\""),
      Habla("{\"atributos\": {\"necesidad\": {\"valor\": true, \"sugerencia\": \"Es necesario para el registro.\"}}, \"porcentaje\": 95}\n"),
      Habla("{\"atributos\": {\"claridad\": {\"valor\": \"alta\", \"sugerencia\": \"Precise el te~rmino Ra~pido\"}, \"completitud\": {\"valor\": \"alta\", \"sugerencia\": \"Indique cua~nto es ra~pido\"}}, \"porcentaje\": 90}"),
      Habla("[1, 2]"),
      Habla("Lo siento, no puedo evaluar este requisito."),
      Habla("{\"atributos\": {\"claridad\": {\"valor\": \"alta\"}}, \"porcentaje\": \"90\"}") }

\* What the service may do with a follow-up call
FollowUpOutcomes ==
    { Falla("503 Service \"Unavailable\""),
      Habla("{\"estado\": \"refinado_final\", \"requisito_refinado_final\": \"El sistema debe responder en 2 segundos.\", \"justificacion_refinamiento\": \"Medible.\"}"),
      Habla("{\"estado\": \"nuevo_requisito\", \"requisito_funcional_nuevo\": \"El sistema debe validar el email.\", \"justificacion\": \"Esencial.\"}"),
      Habla("[1, 2]"),
      Habla("") }

Outcomes(c) == IF c \in Roles THEN ReviewerOutcomes ELSE FollowUpOutcomes

\* safe_json_loads(ask_gemini(o)) for everything o the service may do,
\* computed once
Parsed == [o \in ReviewerOutcomes \cup FollowUpOutcomes |->
              safe_json_loads(ask_gemini(o))]

Issued(c) == \E i \in 1..Len(llamadas) : llamadas[i].quien = c

\* The task that awaits the call c
TaskOf(c) == IF c \in Roles THEN c ELSE "orchestrate"

Init ==
    /\ req \in Requisitos
    /\ pc = "idle"
    /\ tarea = [r \in Roles |-> NoTask]
    /\ outer = [estado |-> "none", exc |-> ""]
    /\ ready = <<>>
    /\ servicio = [c \in Calls |-> NoOutcome]
    /\ llamadas = <<>>
    /\ completadas = <<>>
    /\ results = <<>>
    /\ porcentajes = <<>>
    /\ promedio = 0
    /\ sugerencias = <<>>
    /\ refined = NotParsed
    /\ retorno = NotReturned
    /\ ParseIdle
    /\ CalIdle
    /\ AppIdle

\* orchestrate(req) up to its first await: the check of the project
\* description, then gather makes a task of each reviewer's analyze
Orchestrate ==
    /\ pc = "idle"
    /\ IF HasKey(req, "descripcion_proyecto")
          /\ Truthy(Lookup(req, "descripcion_proyecto"))
       THEN /\ pc' = "gather"
            /\ tarea' = [r \in Roles |-> [NoTask EXCEPT !.estado = "created"]]
            /\ outer' = [estado |-> "pending", exc |-> ""]
            /\ ready' = Agents
            /\ UNCHANGED retorno
       ELSE /\ IF HasKey(req, "text")
               THEN /\ pc' = "done"
                    /\ retorno' = Returned(ValidationError(req))
               ELSE /\ pc' = "raised"
                    /\ retorno' = Raised("KeyError")
            /\ UNCHANGED <<tarea, outer, ready>>
    /\ UNCHANGED <<req, servicio, llamadas, completadas, results, porcentajes,
                   promedio, sugerencias, refined, parseVars, calVars, appVars>>

\* A reviewer task has finished as t: gather notes it, and wakes orchestrate
\* on the first exception or when every task is done
Finish(r, t) ==
    LET now == [tarea EXCEPT ![r] = t]
        wake == /\ outer.estado = "pending"
                /\ (t.estado = "raised" \/ GatherListo(now))
    IN  /\ tarea' = now
        /\ completadas' = Append(completadas, r)
        /\ outer' = IF ~wake THEN outer
                    ELSE IF t.estado = "raised"
                         THEN [estado |-> "exception", exc |-> t.exc]
                         ELSE [estado |-> "result", exc |-> ""]
        /\ ready' = IF wake THEN Append(Tail(ready), "orchestrate")
                    ELSE Tail(ready)

\* The first step of the task of Agent(r).analyze(req): up to the await of
\* ask_gemini, whose call goes to an executor thread
TaskStart(r) ==
    /\ ready # <<>> /\ Head(ready) = r
    /\ tarea[r].estado = "created"
    /\ IF HasKey(req, "text")
       THEN /\ llamadas' = Append(llamadas, AnalyzePrompt(r, req))
            /\ tarea' = [tarea EXCEPT ![r].estado = "awaiting"]
            /\ ready' = Tail(ready)
            /\ UNCHANGED <<outer, completadas>>
       ELSE /\ Finish(r, [NoTask EXCEPT !.estado = "raised",
                                        !.exc = "KeyError"])
            /\ UNCHANGED llamadas
    /\ UNCHANGED <<req, pc, servicio, results, porcentajes, promedio,
                   sugerencias, refined, retorno, parseVars, calVars, appVars>>

\* The executor thread of the call c finishes, with a response or with an
\* exception of the client, and the awaiting task is queued
ModelResponds(c) ==
    /\ Issued(c)
    /\ servicio[c] = NoOutcome
    /\ \E o \in Outcomes(c) : servicio' = [servicio EXCEPT ![c] = o]
    /\ ready' = Append(ready, TaskOf(c))
    /\ UNCHANGED <<req, pc, tarea, outer, llamadas, completadas, results,
                   porcentajes, promedio, sugerencias, refined, retorno,
                   parseVars, calVars, appVars>>

\* The rest of analyze: the response is parsed and the result returned
TaskResume(r) ==
    /\ ready # <<>> /\ Head(ready) = r
    /\ tarea[r].estado = "awaiting"
    /\ LET analysis == Parsed[servicio[r]]
       IN  IF analysis.exc # ""
           THEN Finish(r, [NoTask EXCEPT !.estado = "raised",
                                         !.exc = analysis.exc])
           ELSE IF analysis.val.t # "dict"
           THEN Finish(r, [NoTask EXCEPT !.estado = "raised",
                                         !.exc = "AttributeError"])
           ELSE Finish(r, [NoTask EXCEPT
                              !.estado = "done",
                              !.resultado = AnalyzeResult(r, analysis.val)])
    /\ UNCHANGED <<req, pc, servicio, llamadas, results, porcentajes,
                   promedio, sugerencias, refined, retorno, parseVars,
                   calVars, appVars>>

\* The first of the scores that raised, if any
PrimeraExcepcion(pcts) ==
    LET malas == {i \in 1..Len(pcts) : pcts[i].exc # ""}
    IN  IF malas = {} THEN ""
        ELSE pcts[CHOOSE i \in malas : \A j \in malas : i <= j].exc

\* orchestrate after gather: the exception of a reviewer propagates;
\* otherwise the scores are calibrated and averaged, the suggestions
\* combined and the refinement asked for
Join ==
    /\ ready # <<>> /\ Head(ready) = "orchestrate"
    /\ pc = "gather"
    /\ ready' = Tail(ready)
    /\ IF outer.estado = "exception"
       THEN /\ pc' = "raised"
            /\ retorno' = Raised(outer.exc)
            /\ UNCHANGED <<results, porcentajes, promedio, sugerencias,
                           llamadas>>
       ELSE LET res == GatherResults(tarea)
                pcts == [i \in 1..Len(res) |->
                            ajustar_puntaje(Analysis(res[i]))]
                lines == Sugerencias(res, pcts, 1)
            IN  /\ results' = res
                /\ IF PrimeraExcepcion(pcts) # ""
                   THEN /\ pc' = "raised"
                        /\ retorno' = Raised(PrimeraExcepcion(pcts))
                        /\ UNCHANGED <<porcentajes, promedio, sugerencias,
                                       llamadas>>
                   ELSE /\ porcentajes' = pcts
                        /\ promedio' = Promedio(pcts)
                        /\ sugerencias' = lines
                        /\ llamadas' = Append(llamadas,
                                              RefinePrompt(req, lines))
                        /\ pc' = "refine"
                        /\ UNCHANGED retorno
    /\ UNCHANGED <<req, tarea, outer, servicio, completadas, refined,
                   parseVars, calVars, appVars>>

\* orchestrate after the refinement call: its response is parsed and the
\* new requirement asked for
AfterRefine ==
    /\ ready # <<>> /\ Head(ready) = "orchestrate"
    /\ pc = "refine"
    /\ ready' = Tail(ready)
    /\ LET r == Parsed[servicio["refine"]]
       IN  IF r.exc # ""
           THEN /\ pc' = "raised"
                /\ retorno' = Raised(r.exc)
                /\ UNCHANGED <<refined, llamadas>>
           ELSE /\ refined' = r
                /\ llamadas' = Append(llamadas, CreatePrompt(req))
                /\ pc' = "create"
                /\ UNCHANGED retorno
    /\ completadas' = <<>>
    /\ UNCHANGED <<req, tarea, outer, servicio, results, porcentajes,
                   promedio, sugerencias, parseVars, calVars, appVars>>

\* orchestrate after the call for a new requirement: its response is parsed
\* and the result assembled
AfterCreate ==
    /\ ready # <<>> /\ Head(ready) = "orchestrate"
    /\ pc = "create"
    /\ ready' = Tail(ready)
    /\ LET nuevo_requisito == Parsed[servicio["create"]]
       IN  IF nuevo_requisito.exc # ""
           THEN /\ pc' = "raised"
                /\ retorno' = Raised(nuevo_requisito.exc)
           ELSE IF refined.val.t # "dict" \/ nuevo_requisito.val.t # "dict"
           THEN /\ pc' = "raised"
                /\ retorno' = Raised("AttributeError")
           ELSE /\ pc' = "done"
                /\ retorno' = Returned(Resultado(req, results, promedio,
                                  sugerencias, refined.val,
                                  nuevo_requisito.val))
    /\ UNCHANGED <<req, tarea, outer, servicio, llamadas, completadas,
                   results, porcentajes, promedio, sugerencias, refined,
                   parseVars, calVars, appVars>>

Next ==
    \/ Orchestrate
    \/ \E r \in Roles : TaskStart(r)
    \/ \E c \in Calls : ModelResponds(c)
    \/ \E r \in Roles : TaskResume(r)
    \/ Join
    \/ AfterRefine
    \/ AfterCreate

Spec == Init /\ [][Next]_vars

(***************************************************************************)
(* Properties of safe_json_loads                                           *)
(***************************************************************************)
\* The text has no candidate substring, or one that fails strict decoding
Malformed(str) == ReSearch(str) = "" \/ JsonLoads(ReSearch(str)).err # ""

\* C7 (as claimed): safe_json_loads never raises, and for malformed text it
\* returns an error value whose raw_response is the text unchanged.
C7_NuncaLanza ==
    parsed # NotParsed =>
        /\ parsed.exc = ""
        /\ Malformed(text) =>
              /\ HasKey(parsed.val, "error")
              /\ DictGet(parsed.val, "raw_response", JNull) = JStr(text)

(***************************************************************************)
(* Properties of orchestrate                                               *)
(***************************************************************************)
\* The request has a non-empty text and a non-empty project description
ValidReq ==
    /\ HasKey(req, "text") /\ Truthy(Lookup(req, "text"))
    /\ HasKey(req, "descripcion_proyecto")
    /\ Truthy(Lookup(req, "descripcion_proyecto"))

\* orchestrate is past the join: the scores are computed, the refinement
\* has been asked for
Joined == Issued("refine")

Resumed(r) == tarea[r].estado \in {"done", "raised"}

\* C1: on a valid requirement, no reviewer finishes before all four model
\* calls are out, a reviewer whose model call failed finishes normally, the
\* refinement is asked for only when all four reviewers have finished, and
\* the new requirement only when the refinement has returned.
C1_FanOutJoinOrder ==
    ValidReq =>
        /\ (\E r \in Roles : Resumed(r)) => \A q \in Roles : Issued(q)
        /\ \A r \in Roles :
              (servicio[r].falla /\ Resumed(r)) => tarea[r].estado = "done"
        /\ Issued("refine") => \A r \in Roles : tarea[r].estado = "done"
        /\ Issued("create") =>
              servicio["refine"] # NoOutcome /\ refined # NotParsed

\* C1 witness: a run in which a reviewer's model call failed has got to
\* the call for the new requirement.
C1_Witness ==
    /\ ValidReq
    /\ Issued("create")
    /\ \E r \in Roles : servicio[r].falla

\* The model call failed, or it returned a review as the prompt asks for:
\* an object whose atributos is an object and whose porcentaje is a number
Conforme(o) ==
    \/ o.falla
    \/ /\ Parsed[o].exc = ""
       /\ Parsed[o].val.t = "dict"
       /\ DictGet(Parsed[o].val, "atributos", JNull).t = "dict"
       /\ DictGet(Parsed[o].val, "porcentaje", JNull).t = "num"

\* The keys of a dict, in order
Keys(d) == [i \in 1..Len(d.items) |-> d.items[i].key]

\* C2: on a valid requirement, whatever mix of failed and succeeded model
\* calls, no reviewer raises and the join is passed; the result has exactly
\* one review per role; and when every model call failed, every review is
\* error-tagged, every score is 0 and the mean is 0.
C2_UnaRevisionPorRol ==
    ValidReq =>
        /\ (\A r \in Roles : servicio[r] # NoOutcome => Conforme(servicio[r]))
              => /\ outer.estado # "exception"
                 /\ pc = "raised" => Issued("refine")
        /\ pc = "done" =>
              Keys(Lookup(retorno.val, "analisis_detallado")) = Agents
        /\ (Joined /\ \A r \in Roles : servicio[r].falla) =>
              /\ Len(results) = Len(Agents)
              /\ \A i \in 1..Len(Agents) :
                    /\ HasKey(Analysis(results[i]), "error")
                    /\ porcentajes[i] = Puntaje(0)
              /\ promedio = 0
              /\ pc = "done" =>
                    /\ Lookup(retorno.val, "promedio_cumplimiento") = JFloat(0)
                    /\ \A r \in Roles :
                          HasKey(Lookup(Lookup(retorno.val,
                                     "analisis_detallado"), r), "error")

\* C2 witness: orchestrate has returned after the model call of every
\* reviewer failed.
C2_Witness ==
    /\ ValidReq
    /\ pc = "done"
    /\ \A r \in Roles : servicio[r].falla

\* C3 (as claimed): on a valid requirement, whatever the service returns,
\* orchestrate never ends with an exception.
C3_NadaEscapa == ValidReq => pc # "raised"

\* C4 (as claimed): when the text or the project description is missing or
\* empty, orchestrate returns a validation error, without raising and
\* without any model call.
C4_ValidacionSinLlamadas ==
    ~ValidReq =>
        /\ pc \in {"idle", "done"}
        /\ llamadas = <<>>
        /\ pc = "done" => HasKey(retorno.val, "error")

\* C5 (as claimed): a model call follows the join only when the mean is in
\* the band below 35 or in [35, 70]; with a mean of 71 or more the run has
\* its four reviewer calls and no other.
C5_BandaDecide == Len(llamadas) > Len(Agents) => promedio <= 7000

\* C5 (amended): the mean selects nothing: a run that returns a result has
\* made six model calls, the four reviewers' and then the refinement and the
\* new requirement, in every band, and its result carries the original text.
C5_SiempreRefina ==
    (pc = "done" /\ HasKey(retorno.val, "promedio_cumplimiento")) =>
        /\ [i \in 1..Len(llamadas) |-> llamadas[i].quien]
              = Agents \o <<"refine", "create">>
        /\ Lookup(retorno.val, "text") = Lookup(req, "text")
        /\ HasKey(Lookup(retorno.val, "opciones_requisito"),
                  "requisito_refinado")

\* C5 witness: orchestrate has returned a result whose mean is 90 or more.
C5_Witness ==
    /\ pc = "done"
    /\ HasKey(retorno.val, "promedio_cumplimiento")
    /\ promedio >= 9000

\* What the run must compute from the responses, role by role in the
\* configured order
EsperadoResults ==
    [i \in 1..Len(Agents) |->
        AnalyzeResult(Agents[i], Parsed[servicio[Agents[i]]].val)]

\* ajustar_puntaje of the review in each response that analyze accepts,
\* computed once
Calibrado ==
    [o \in {x \in ReviewerOutcomes : Parsed[x].exc = ""} |->
        ajustar_puntaje(Parsed[o].val)]

EsperadoPorcentajes ==
    [i \in 1..Len(Agents) |-> Calibrado[servicio[Agents[i]]]]

EsperadoSugerencias == Sugerencias(EsperadoResults, EsperadoPorcentajes, 1)

\* C6: past the join, the reviews, the scores, the mean, the combined
\* suggestions, the refinement prompt and the role-keyed reviews of the
\* result are those of the responses taken role by role, whatever the order
\* in which the reviewers finished.
C6_OrdenNoAfecta ==
    Joined =>
        /\ results = EsperadoResults
        /\ porcentajes = EsperadoPorcentajes
        /\ promedio = Promedio(EsperadoPorcentajes)
        /\ sugerencias = EsperadoSugerencias
        /\ llamadas[Len(Agents) + 1] = RefinePrompt(req, EsperadoSugerencias)
        /\ pc = "done" =>
              /\ Lookup(retorno.val, "promedio_cumplimiento")
                    = JFloat(Promedio(EsperadoPorcentajes))
              /\ Lookup(retorno.val, "analisis_detallado")
                    = JDict([i \in 1..Len(Agents) |->
                               Entry(Agents[i], Analysis(EsperadoResults[i]))])
              /\ Lookup(retorno.val, "sugerencias_combinadas")
                    = JList([i \in 1..Len(EsperadoSugerencias) |->
                               JStr(EsperadoSugerencias[i])])

\* C6 witness: the join was passed with the reviewers finishing in another
\* order than the configured one, their reviews differing and more than one
\* of them giving suggestions.
C6_Witness ==
    /\ pc = "refine"
    /\ Len(completadas) = Len(Agents)
    /\ completadas # Agents
    /\ results[1] # results[2]
    /\ porcentajes[1] # porcentajes[2]
    /\ Len(sugerencias) >= 2

\* The review reports 90, has attributes, and each of them has a suggestion
\* with the vague term and no other red flag
Rapido90(analysis) ==
    /\ DictGet(analysis, "porcentaje", JNull) = JNum(90)
    /\ DictGet(analysis, "atributos", JNull).t = "dict"
    /\ Lookup(analysis, "atributos").items # <<>>
    /\ \A i \in 1..Len(Lookup(analysis, "atributos").items) :
          LET datos == Lookup(analysis, "atributos").items[i].val
          IN  /\ datos.t = "dict"
              /\ Contains("ra~pido",
                    Lower(PyStr(DictGet(datos, "sugerencia", JStr("")))))
              /\ Penalizacion(datos) = 20

TodosRapido90 ==
    /\ Joined
    /\ \A i \in 1..Len(Agents) : Rapido90(Analysis(results[i]))

\* C10 (as claimed): with all four roles at 90 and the vague term in every
\* suggestion, each score is at most 70 and the mean is below 35.
C10_PromedioBajo35 ==
    TodosRapido90 =>
        /\ \A i \in 1..Len(Agents) : porcentajes[i].val <= 7000
        /\ promedio < 3500

\* C10 (amended): with all four roles at 90 and the vague term in every
\* suggestion, each score is 70 and so is the mean; the refinement is asked
\* for and the result carries a refined-requirement option.
C10_PromedioSetenta ==
    TodosRapido90 =>
        /\ \A i \in 1..Len(Agents) : porcentajes[i] = Puntaje(7000)
        /\ promedio = 7000
        /\ Issued("refine")
        /\ pc = "done" =>
              HasKey(Lookup(retorno.val, "opciones_requisito"),
                     "requisito_refinado")

\* C10 witness: orchestrate has returned for four such reviews.
C10_Witness == TodosRapido90 /\ pc = "done"

(***************************************************************************)
(* orchestrate as the endpoints see it: its outcome for a request r when   *)
(* the service does e[c] with the call c.  Which exception of several      *)
(* reviewers reaches the caller depends on which of them finished first.   *)
(***************************************************************************)
\* What analyze does with analysis, the outcome of safe_json_loads on the
\* response of its model call
AnalyzeOutcome(role, analysis) ==
    IF analysis.exc # "" THEN Raised(analysis.exc)
    ELSE IF analysis.val.t # "dict" THEN Raised("AttributeError")
    ELSE Returned(AnalyzeResult(role, analysis.val))

\* orchestrate from the responses of the follow-up calls on
OutcomesAfterFollowUps(r, res, pcts, lines, ref, nuevo) ==
    IF ref.exc # "" THEN {Raised(ref.exc)}
    ELSE IF nuevo.exc # "" THEN {Raised(nuevo.exc)}
    ELSE IF ref.val.t # "dict" \/ nuevo.val.t # "dict"
    THEN {Raised("AttributeError")}
    ELSE {Returned(Resultado(r, res, Promedio(pcts), lines, ref.val,
                             nuevo.val))}

\* orchestrate from the calibrated scores on
OutcomesAfterScores(r, e, res, pcts) ==
    IF PrimeraExcepcion(pcts) # "" THEN {Raised(PrimeraExcepcion(pcts))}
    ELSE OutcomesAfterFollowUps(r, res, pcts, Sugerencias(res, pcts, 1),
                                Parsed[e["refine"]], Parsed[e["create"]])

\* orchestrate from the outcomes an of the four analyze tasks on
OutcomesAfterGather(r, e, an) ==
    IF \E i \in 1..Len(an) : an[i].exc # ""
    THEN {Raised(an[i].exc) : i \in {k \in 1..Len(an) : an[k].exc # ""}}
    ELSE OutcomesAfterScores(r, e, [i \in 1..Len(an) |-> an[i].val],
             [i \in 1..Len(an) |-> ajustar_puntaje(Analysis(an[i].val))])

OrchestrateOutcomes(r, e) ==
    IF ~(HasKey(r, "descripcion_proyecto")
         /\ Truthy(Lookup(r, "descripcion_proyecto")))
    THEN {IF HasKey(r, "text") THEN Returned(ValidationError(r))
          ELSE Raised("KeyError")}
    ELSE IF ~HasKey(r, "text") THEN {Raised("KeyError")}
    ELSE OutcomesAfterGather(r, e,
             [i \in 1..Len(Agents) |->
                 AnalyzeOutcome(Agents[i], Parsed[e[Agents[i]]])])

(***************************************************************************)
(* db.py: the requirements table, a sequence of rows in rowid order        *)
(***************************************************************************)
Row(req_id, txt, context, result_json) ==
    [id |-> req_id, text |-> txt, context |-> context,
     result_json |-> result_json]

\* INSERT OR REPLACE on the primary key id: the row of that id, if any, is
\* deleted and the new row inserted
InsertOrReplace(t, row) ==
    Append(SelectSeq(t, LAMBDA x : x.id # row.id), row)

\* The table after save_result(req_id, text, context, result_json), which
\* returns None whether or not sqlite raised an error
save_result(t, row, sqlite_error) ==
    IF sqlite_error THEN t ELSE InsertOrReplace(t, row)

\* dict(row) of a sqlite3.Row of the SELECT
RowDict(row) ==
    JDict(<<Entry("id", JStr(row.id)), Entry("text", JStr(row.text)),
            Entry("context", JStr(row.context)),
            Entry("result_json", JStr(row.result_json))>>)

\* What load_all returns
load_all(t, sqlite_error) ==
    IF sqlite_error THEN <<>> ELSE [i \in 1..Len(t) |-> RowDict(t[i])]

(***************************************************************************)
(* app.py: the endpoints.  A request is served to its end before the next  *)
(* one is taken.                                                           *)
(***************************************************************************)
\* The most requirements in a batch
MaxBatch == 2

\* The most requests served
MaxPeticiones == 3

\* The requirements that pass RequirementIn, as the payload of the endpoint
Entradas ==
    LET descripcion == Entry("descripcion_proyecto",
                             JStr("Sistema de gestio~n bibliotecaria"))
    IN  { Req(<<Entry("id", JStr("RF-01")),
                Entry("text", JStr("El sistema debe ser ra~pido")),
                descripcion>>),
          Req(<<Entry("id", JStr("RF-01")),
                Entry("text", JStr("El sistema responde en 2 segundos")),
                descripcion>>),
          Req(<<Entry("id", JStr("RF-02")),
                Entry("text", JStr("El sistema debe registrar usuarios")),
                descripcion>>) }

\* What the service does with the six calls of one run of orchestrate:
\* every call answered as asked, every call failed, one reviewer answering
\* with an array
Escenarios ==
    LET revision == Habla("{\"atributos\": {\"claridad\": {\"valor\": \"alta\", \"sugerencia\": \"Precise el te~rmino Ra~pido\"}, \"completitud\": {\"valor\": \"alta\", \"sugerencia\": \"Indique cua~nto es ra~pido\"}}, \"porcentaje\": 90}")
        refinado == Habla("{\"estado\": \"refinado_final\", \"requisito_refinado_final\": \"El sistema debe responder en 2 segundos.\", \"justificacion_refinamiento\": \"Medible.\"}")
        nuevo == Habla("{\"estado\": \"nuevo_requisito\", \"requisito_funcional_nuevo\": \"El sistema debe validar el email.\", \"justificacion\": \"Esencial.\"}")
        caida == Falla("503 Service \"Unavailable\"")
        bien == [c \in Calls |-> IF c \in Roles THEN revision
                                 ELSE IF c = "refine" THEN refinado
                                 ELSE nuevo]
    IN  { bien,
          [c \in Calls |-> caida],
          [bien EXCEPT !["Analyst"] = Habla("[1, 2]")] }

\* result = await orchestrate(payload) and, when it returned,
\* json.dumps(result, ensure_ascii=False)
Analizado(o) ==
    [exc |-> o.exc, val |-> o.val,
     json |-> IF o.exc = "" THEN JsonDumps(o.val) ELSE ""]

\* The outcomes of that for every payload and every scenario, computed once
Analizados ==
    [r \in Entradas |->
        [e \in Escenarios |->
            {Analizado(o) : o \in OrchestrateOutcomes(r, e)}]]

\* The row that the endpoint saves for the payload r and the text of the
\* result
RowOf(r, result_json) ==
    Row(Lookup(r, "id").s, Lookup(r, "text").s,
        Lookup(r, "descripcion_proyecto").s, result_json)

\* What the history keeps of a save that wrote its row
Saved(r, result) == [id |-> Lookup(r, "id").s, req |-> r, result |-> result]

HttpError(detail) ==
    [exc |-> "HTTPException",
     val |-> JDict(<<Entry("status_code", JNum(500)),
                     Entry("detail", JStr(detail))>>)]

Respuesta(endpoint, out) ==
    [endpoint |-> endpoint, exc |-> out.exc, val |-> out.val]

\* POST /analyze with the payload r: orchestrate's outcome is o, and
\* sqlite raises an error in save_result or not
PostAnalyze ==
    /\ handler = "idle"
    /\ peticiones < MaxPeticiones
    /\ \E r \in Entradas : \E e \in Escenarios :
         \E o \in Analizados[r][e] : \E sqlite_error \in BOOLEAN :
           /\ batch' = <<r>>
           /\ orquestado' = <<Respuesta("orchestrate", o)>>
           /\ IF o.exc # ""
              THEN /\ respuesta' =
                        Respuesta("analyze",
                                  HttpError("Error en ana~lisis: " \o o.exc))
                   /\ guardado' = <<"none">>
                   /\ UNCHANGED <<tabla, ultimo>>
              ELSE /\ tabla' = save_result(tabla, RowOf(r, o.json),
                                           sqlite_error)
                   /\ guardado' =
                        <<IF sqlite_error THEN "failed" ELSE "written">>
                   /\ ultimo' =
                        IF sqlite_error THEN ultimo
                        ELSE InsertOrReplace(ultimo, Saved(r, o.val))
                   /\ respuesta' =
                        Respuesta("analyze", Returned(JDict(<<
                          Entry("status", JStr("success")),
                          Entry("message",
                                JStr("Requisito analizado correctamente")),
                          Entry("data", o.val)>>)))
    /\ resultados' = <<>>
    /\ peticiones' = peticiones + 1
    /\ UNCHANGED <<handler, parseVars, calVars, orchVars>>

\* POST /batch_analyze: the handler starts on a batch
PostBatch ==
    /\ handler = "idle"
    /\ peticiones < MaxPeticiones
    /\ \E n \in 0..MaxBatch : batch' \in [1..n -> Entradas]
    /\ handler' = "batch_analyze"
    /\ resultados' = <<>>
    /\ orquestado' = <<>>
    /\ guardado' = <<>>
    /\ respuesta' = NoRespuesta
    /\ peticiones' = peticiones + 1
    /\ UNCHANGED <<tabla, ultimo, parseVars, calVars, orchVars>>

\* One turn of the loop of batch_analyze, for the next requirement r
BatchItem ==
    /\ handler = "batch_analyze"
    /\ Len(resultados) < Len(batch)
    /\ LET r == batch[Len(resultados) + 1]
           id == Entry("id", Lookup(r, "id"))
       IN  \E e \in Escenarios : \E o \in Analizados[r][e] :
             \E sqlite_error \in BOOLEAN :
               /\ orquestado' = Append(orquestado, Respuesta("orchestrate", o))
               /\ IF o.exc # ""
                  THEN /\ resultados' = Append(resultados, JDict(<<
                            id, Entry("status", JStr("error")),
                            Entry("error", JStr(o.exc))>>))
                       /\ guardado' = Append(guardado, "none")
                       /\ UNCHANGED <<tabla, ultimo>>
                  ELSE /\ tabla' = save_result(tabla, RowOf(r, o.json),
                                               sqlite_error)
                       /\ guardado' =
                            Append(guardado, IF sqlite_error THEN "failed"
                                             ELSE "written")
                       /\ ultimo' =
                            IF sqlite_error THEN ultimo
                            ELSE InsertOrReplace(ultimo, Saved(r, o.val))
                       /\ resultados' = Append(resultados, JDict(<<
                            id, Entry("status", JStr("success")),
                            Entry("data", o.val)>>))
    /\ UNCHANGED <<handler, batch, respuesta, peticiones, parseVars, calVars,
                   orchVars>>

\* batch_analyze returns after the loop
BatchReturn ==
    /\ handler = "batch_analyze"
    /\ Len(resultados) = Len(batch)
    /\ respuesta' =
         Respuesta("batch_analyze", Returned(JDict(<<
           Entry("status", JStr("completed")),
           Entry("count", JNum(Len(resultados))),
           Entry("results", JList(resultados))>>)))
    /\ handler' = "idle"
    /\ UNCHANGED <<tabla, batch, resultados, orquestado, guardado, ultimo,
                   peticiones, parseVars, calVars, orchVars>>

\* for id_, text, descripcion_proyecto, result_json in rows: each row is
\* unpacked by iteration, and iterating a dict gives its keys
Unpacked(row) == Keys(row)

\* parsed of get_stored, d being what json.loads(result_json) did: the
\* value, or {"raw": result_json} when it does not decode
ParsedOrRaw(result_json, d) ==
    IF d.err = "" THEN Returned(d.val)
    ELSE IF d.err = "decode"
    THEN Returned(JDict(<<Entry("raw", JStr(result_json))>>))
    ELSE Raised("RecursionError")

\* The item of /stored for the names u that the row was unpacked into
StoredItem(u) ==
    JDict(<<Entry("id", JStr(u[1])), Entry("text", JStr(u[2])),
            Entry("descripcion_proyecto", JStr(u[3])),
            Entry("result", ParsedOrRaw(u[4], JsonLoads(u[4])).val)>>)

\* out[:limit] if limit
Limited(out, limit) ==
    IF limit # 0 /\ limit < Len(out) THEN SubSeq(out, 1, limit) ELSE out

StoredResponse(out) ==
    Returned(JDict(<<Entry("status", JStr("success")),
                     Entry("count", JNum(Len(out))),
                     Entry("items", JList(out))>>))

\* get_stored on the rows kept by filter_id, each unpacked
StoredOf(us, limit) ==
    IF \E i \in 1..Len(us) : Len(us[i]) # 4
    THEN HttpError("Error cargando datos: ValueError")
    ELSE IF \E i \in 1..Len(us) :
               ParsedOrRaw(us[i][4], JsonLoads(us[i][4])).exc # ""
    THEN HttpError("Error cargando datos: RecursionError")
    ELSE StoredResponse(Limited([i \in 1..Len(us) |-> StoredItem(us[i])],
                                limit))

\* What get_stored returns for the rows of load_all; filter_id "" and
\* limit 0 stand for None
get_stored(rows, filter_id, limit) ==
    StoredOf(SelectSeq([i \in 1..Len(rows) |-> Unpacked(rows[i])],
                       LAMBDA u : ~(filter_id # "" /\ u[1] # filter_id)),
             limit)

\* GET /stored, with or without filter_id and limit; sqlite raises an error
\* in load_all or not
GetStored ==
    /\ handler = "idle"
    /\ peticiones < MaxPeticiones
    /\ \E filter_id \in {"", "RF-01"} : \E limit \in {0, 1} :
         \E sqlite_error \in BOOLEAN :
           /\ respuesta' =
                Respuesta(IF filter_id = "" /\ limit = 0 /\ ~sqlite_error
                          THEN "stored" ELSE "stored_partial",
                          get_stored(load_all(tabla, sqlite_error),
                                     filter_id, limit))
    /\ peticiones' = peticiones + 1
    /\ UNCHANGED <<tabla, handler, batch, resultados, orquestado, guardado,
                   ultimo, parseVars, calVars, orchVars>>

AppInit ==
    /\ AppIdle
    /\ ParseIdle
    /\ CalIdle
    /\ OrchIdle

AppNext ==
    \/ PostAnalyze
    \/ PostBatch
    \/ BatchItem
    \/ BatchReturn
    \/ GetStored

AppSpec == AppInit /\ [][AppNext]_vars

(***************************************************************************)
(* Properties of the endpoints and the store                               *)
(***************************************************************************)
\* C11 (as claimed): whenever save_result did not write the row, /analyze
\* does not answer with plain success, and the entry of that requirement in
\* /batch_analyze does not have the status success.
C11_FalloDeGuardadoVisible ==
    LET Success(v) == DictGet(v, "status", JNull) = JStr("success")
    IN  /\ (respuesta.endpoint = "analyze" /\ guardado = <<"failed">>)
              => ~(respuesta.exc = "" /\ Success(respuesta.val))
        /\ \A i \in 1..Len(resultados) :
              guardado[i] = "failed" => ~Success(resultados[i])

\* C12 (as claimed): /stored, asked for everything, answers with exactly one
\* item per id that was saved, and the item has the id, the text, the
\* project description and the result of the last save that wrote that id,
\* the result being equal to what orchestrate returned.
C12_RecargaIgualAlUltimoGuardado ==
    LET \* The item that /stored owes for a save that wrote its row
        ItemOf(saved) ==
            JDict(<<Entry("id", JStr(saved.id)),
                    Entry("text", Lookup(saved.req, "text")),
                    Entry("descripcion_proyecto",
                          Lookup(saved.req, "descripcion_proyecto")),
                    Entry("result", saved.result)>>)
    IN  respuesta.endpoint = "stored" =>
            /\ respuesta.exc = ""
            /\ Len(Lookup(respuesta.val, "items").items) = Len(ultimo)
            /\ \A k \in 1..Len(ultimo) :
                  \E i \in 1..Len(Lookup(respuesta.val, "items").items) :
                     Lookup(respuesta.val, "items").items[i].val
                        = ItemOf(ultimo[k])

\* C13 (as claimed): /batch_analyze answers with one entry per requirement
\* of the batch, in the order of the batch; the entry of a requirement whose
\* processing failed is tagged, and the entry of every other requirement is
\* a success that carries what orchestrate returned for it.
C13_AislamientoPorItem ==
    LET Exito(v) == DictGet(v, "status", JNull) = JStr("success")
        \* Every review of the result is error-tagged
        TodasConError(result) ==
            /\ result.t = "dict"
            /\ HasKey(result, "analisis_detallado")
            /\ \A i \in 1..Len(Lookup(result, "analisis_detallado").items) :
                  HasKey(Lookup(result, "analisis_detallado").items[i].val,
                         "error")
        \* Processing requirement i of the batch failed: orchestrate
        \* raised, the model failed for every role, or the store did not
        \* write the row
        ItemFailed(i) ==
            \/ orquestado[i].exc # ""
            \/ TodasConError(orquestado[i].val)
            \/ guardado[i] = "failed"
        \* The entry is tagged: its status is not success, or it carries a
        \* result whose reviews are all error-tagged
        Degradado(entry) ==
            \/ ~Exito(entry)
            \/ TodasConError(DictGet(entry, "data", JNull))
    IN  respuesta.endpoint = "batch_analyze" =>
            /\ respuesta.exc = ""
            /\ Lookup(respuesta.val, "count") = JNum(Len(batch))
            /\ Len(Lookup(respuesta.val, "results").items) = Len(batch)
            /\ \A i \in 1..Len(batch) :
                  /\ DictGet(Lookup(respuesta.val, "results").items[i].val,
                             "id", JNull) = Lookup(batch[i], "id")
                  /\ ItemFailed(i) =>
                        Degradado(Lookup(respuesta.val, "results").items[i].val)
                  /\ ~ItemFailed(i) =>
                        /\ Exito(Lookup(respuesta.val, "results").items[i].val)
                        /\ DictGet(Lookup(respuesta.val, "results").items[i].val,
                                   "data", JNull) = orquestado[i].val

====
